---- MODULE Spec2Model ----
(***************************************************************************)
(* The chat server of src/server.py as a state machine.                    *)
(*                                                                         *)
(* One task per client connection runs client_connected/process_data; two  *)
(* maintenance tasks run delete_old_messages and reset_limit_messages.     *)
(* All tasks share one event loop, so a task runs without interruption     *)
(* from one await to the next.  The awaits are: reader.read, writer.drain  *)
(* and loop.run_in_executor.  Storage calls go through db_executor, a      *)
(* ThreadPoolExecutor(1): a FIFO queue served by one worker.  A step of    *)
(* the worker below executes the storage call at the head of the queue and *)
(* runs the continuation of the awaiting coroutine up to its next await.   *)
(***************************************************************************)
EXTENDS Integers, Sequences, FiniteSets, TLC

\* ---- bounds of the model
NConns == 2          \* client connections (one handler task each)
MaxReq == 3          \* requests read over all connections (Spec)
MaxRaceReq == 5      \* requests read over all connections (SpecRace)
MaxLiveReq == 2      \* requests read over all connections (SpecLive)
MaxFail == 1         \* storage calls that raise inside the worker
MaxTime == 2         \* the clock stops ticking between inserts at this reading
MaxPoolReq == 2
MaxWireReq == 3
MaxPrivateReq == 3      \* requests read over all connections (SpecPool)

\* ---- config.py is imported (src/server.py:13-16) but its values are small
\* ---- stand-ins here
LIMIT_MESSAGES == 2        \* broadcasts allowed per reset period
LIMIT_SHOW_MESSAGES == 1   \* K: rows of the "before registration" window
LIFETIME_MESSAGES == 1     \* lifetime of a message, in clock units

\* (mutant) a pool of two worker threads
max_workers_two == 1 + 1

\* ThreadPoolExecutor(1): the worker threads of db_executor
max_workers == 1

Conns == 1..NConns
DELETE_TASK == NConns + 1
RESET_TASK == NConns + 2
Usernames == {"u1", "u2"}
Texts == {"hi"}

\* structs.py RequestData: the decoded request
RequestData(u, tg, r, m) ==
    [username |-> u, target |-> tg, receiver |-> r, message |-> m]
NoRequest == RequestData("", "", "", "")
Requests ==
    {RequestData(u, "hello", "", "") : u \in Usernames}
    \cup {RequestData(u, "all", "", m) : u \in Usernames, m \in Texts}
    \cup {RequestData(u, "one_to_one", r, m) :
             u \in Usernames, r \in Usernames, m \in Texts}
    \cup {RequestData(u, "status", "", m) : u \in Usernames, m \in Texts}
\* a key that the JSON object of a request does not hold
NoKey == "<no key>"
\* data[k] for every k of keys: a key that is not there raises KeyError
HasKeys(r, keys) == \A k \in keys : r[k] # NoKey
\* the requests of the wire format, in which "receiver" and "message" are
\* optional: those above, and requests to the general chat and status
\* requests that leave one of them out
WireRequests ==
    Requests
    \cup {RequestData(u, tg, NoKey, m) :
             u \in Usernames, tg \in {"all", "status"}, m \in Texts}
    \cup {RequestData(u, "status", "", NoKey) : u \in Usernames}
\* the values of "receiver" in a one_to_one request: a username, the
\* default '' and the literal 'all'
PrivateReceivers == Usernames \cup {"", "all"}
\* a text that tells which receiver its one_to_one request names
Note(r) ==
    CASE r = "u1" -> "for u1"
      [] r = "u2" -> "for u2"
      [] r = "all" -> "for 'all'"
      [] OTHER -> "for ''"
Notes == {Note(r) : r \in PrivateReceivers}
NamedIn(text) == CHOOSE r \in PrivateReceivers : Note(r) = text
\* hellos and one_to_one requests with every value of receiver
PrivateRequests ==
    {RequestData(u, "hello", "", "") : u \in Usernames}
    \cup {RequestData(u, "one_to_one", r, Note(r)) :
             u \in Usernames, r \in PrivateReceivers}
\* the requests to the general chat
ChatRequests == {r \in Requests : r.target \in {"hello", "all"}}
\* the requests of one username to the general chat
RaceRequests ==
    {r \in Requests : r.target \in {"hello", "all"} /\ r.username = "u1"}

VARIABLES
    users,          \* self.users: insertion-ordered dict, a sequence of [name, w]
    registrations,  \* table main.registrations: sequence of rows
    messages,       \* table main.messages: sequence of rows, in insertion order
    now,            \* the clock read by datetime.now
    db_queue,       \* work queue of db_executor: the tasks awaiting a storage call
    running,        \* the tasks whose storage call a worker thread is executing
    pc,             \* per connection task: the await it is suspended at, or
                    \*   "failed" (ended by an exception) or "closed" (ended
                    \*   by writer.close())
    loc,            \* per connection task: the locals of its coroutines (Locals)
    maint,          \* per maintenance task: "sleep" or "queued"
    stalled,        \* connections whose peer never reads again: drain never returns
    nreq, nfail,    \* counters for the bounds
    last_write,     \* history: the latest writer.write
    sent,           \* history, per task: writers written to by the running fan-out
    snap,           \* history, per task: the dict when the fan-out iterator was made
    bcast,          \* history, per username: broadcasts since the last reset run
    reached,        \* history: usernames whose stored count has been at the limit
                    \*   since the last reset run
    late            \* history: tasks whose request was read after its username
                    \*   reached the limit, no reset run since

vars == <<users, registrations, messages, now, db_queue, running, pc, loc,
          maint, stalled, nreq, nfail, last_write, sent, snap, bcast, reached,
          late>>

\* The locals of a connection task:
\*   data            process_data: the decoded request
\*   exist_user      process_data: whether get_user returned a row
\*   reg_date        process_data
\*   count_messages  process_data
\*   messages        send_available_messages: the fetched rows
\*   it, it_len      the running iterator: next position, and the dict size
\*                   it was created with
\*   w               the writer whose drain is awaited
NoLocals ==
    [data |-> NoRequest, exist_user |-> FALSE, reg_date |-> 0,
     count_messages |-> 0,
     messages |-> <<>>, it |-> 0, it_len |-> 0, w |-> 0]

\* ------------------------------------------------------------------------
\* The dict self.users
\* ------------------------------------------------------------------------
Min(S) == CHOOSE x \in S : \A y \in S : x <= y

HasKey(us, name) == \E i \in 1..Len(us) : us[i].name = name
KeyIndex(us, name) == CHOOSE i \in 1..Len(us) : us[i].name = name

\* self.users[user] = writer: a new key is appended, an existing key keeps
\* its position and gets the new value
register(us, name, wr) ==
    IF HasKey(us, name)
    THEN [us EXCEPT ![KeyIndex(us, name)] = [name |-> name, w |-> wr]]
    ELSE Append(us, [name |-> name, w |-> wr])

\* the writers registered under a username (at most one)
SessionsOf(us, name) == {us[i].w : i \in {j \in 1..Len(us) : us[j].name = name}}
Registered(us) == {us[i].w : i \in 1..Len(us)}

\* ------------------------------------------------------------------------
\* The storage operations (the static methods of Server)
\* ------------------------------------------------------------------------
\* __create_record_in_db: receiver '' is stored as 'all'
create_record_in_db(msgs, message, sender, receiver, t) ==
    Append(msgs, [message |-> message, sender |-> sender,
                  receiver |-> IF receiver = "" THEN "all" ELSE receiver,
                  send_date |-> t])

\* registrations(username UNIQUE, ...): the INSERT of a present username raises
username_unique(regs, user) ==
    \A i \in 1..Len(regs) : regs[i].username # user

\* (mutant) the INSERT is never committed
create_user_no_commit(regs, user, t) == regs

\* __create_user_db_record: INSERT (username, reg_date); count_messages takes
\* the column default; an exception is logged and nothing is inserted
create_user_db_record(regs, user, t) ==
    IF username_unique(regs, user)
    THEN Append(regs, [username |-> user, reg_date |-> t, count_messages |-> 0])
    ELSE regs

\* __get_user: fetchone of the rows of that username; <<>> stands for None
get_user_row(regs, username) ==
    LET rows == SelectSeq(regs, LAMBDA r : r.username = username)
    IN  IF rows = <<>> THEN <<>> ELSE <<Head(rows)>>

\* __append_count_message: UPDATE ... SET count_messages = ? WHERE username = ?
append_count_row(regs, username, c) ==
    [i \in 1..Len(regs) |->
        IF regs[i].username = username
        THEN [regs[i] EXCEPT !.count_messages = c] ELSE regs[i]]

\* (mutant) the reset with WHERE count_messages >= LIMIT_MESSAGES
reset_limited_users(regs) ==
    [i \in 1..Len(regs) |->
        IF regs[i].count_messages >= LIMIT_MESSAGES
        THEN [regs[i] EXCEPT !.count_messages = 0] ELSE regs[i]]

\* __reset_limits: UPDATE ... SET count_messages = 0
reset_limits(regs) ==
    [i \in 1..Len(regs) |-> [regs[i] EXCEPT !.count_messages = 0]]

\* A clock reading as SQLite holds it and as the f-string of line 343 puts it
\* in the query: datetime.isoformat(' '), the text "SS[.5]+ZZ" of a reading
\* in half seconds, as character codes.  The fraction is left out when it is
\* zero; the zone is the same for every reading.  Readings before the first
\* one of the model sort first.
isoformat(t) ==
    LET SS == t \div 2
        digits == IF t < 0 THEN <<47, 47>>
                  ELSE <<48 + (SS \div 10), 48 + (SS % 10)>>
    IN  digits \o (IF t % 2 = 0 THEN <<>> ELSE <<46, 53>>) \o <<43, 48>>

\* a < b for two TEXT values: memcmp, then the shorter first
TextLess(a, b) ==
    LET n == Min({Len(a), Len(b)})
        D == {i \in 1..n : a[i] # b[i]}
    IN  IF D = {} THEN Len(a) < Len(b) ELSE a[Min(D)] < b[Min(D)]

\* (mutant) DELETE FROM main.messages without the WHERE clause
delete_everything(msgs, t) == <<>>

\* __delete_old_messages: DELETE ... WHERE send_date < '{deadline_date}' with
\* deadline_date = now - LIFETIME_MESSAGES
delete_old(msgs, t) ==
    LET deadline_date == t - LIFETIME_MESSAGES
    IN  SelectSeq(msgs, LAMBDA m :
            ~TextLess(isoformat(m.send_date), isoformat(deadline_date)))

\* ---- __get_available_messages
Row(m) == [message |-> m.message, sender |-> m.sender, send_date |-> m.send_date]

\* WHERE receiver in ('all', ?)
Addressed(msgs, receiver) ==
    SelectSeq(msgs, LAMBDA m : m.receiver \in {"all", receiver})

\* ORDER BY send_date of a sequence of rows (stable: ties keep insertion order)
RECURSIVE OrderBySendDate(_)
OrderBySendDate(s) ==
    IF s = <<>> THEN <<>>
    ELSE LET lo == Min({s[i].send_date : i \in 1..Len(s)})
             k == Min({i \in 1..Len(s) : s[i].send_date = lo})
         IN  <<s[k]>> \o OrderBySendDate(
                 [i \in 1..(Len(s) - 1) |-> IF i < k THEN s[i] ELSE s[i + 1]])

\* LIMIT n
Limit(s, n) == IF Len(s) <= n THEN s ELSE SubSeq(s, 1, n)

\* first subquery: send_date >= reg_date
SinceRegistration(msgs, receiver, rd) ==
    OrderBySendDate(SelectSeq(Addressed(msgs, receiver),
                              LAMBDA m : m.send_date >= rd))

\* second subquery: send_date <= reg_date ORDER BY send_date LIMIT K
BeforeRegistration(msgs, receiver, rd) ==
    Limit(OrderBySendDate(SelectSeq(Addressed(msgs, receiver),
                                    LAMBDA m : m.send_date <= rd)),
          LIMIT_SHOW_MESSAGES)

RECURSIVE SetToSeq(_)
SetToSeq(S) ==
    IF S = {} THEN <<>>
    ELSE LET x == CHOOSE y \in S : TRUE IN <<x>> \o SetToSeq(S \ {x})

\* UNION of the two subqueries (a set of rows), ORDER BY send_date
get_available_messages(msgs, receiver, rd) ==
    LET a == SinceRegistration(msgs, receiver, rd)
        b == BeforeRegistration(msgs, receiver, rd)
        rows == {Row(a[i]) : i \in 1..Len(a)} \cup {Row(b[i]) : i \in 1..Len(b)}
    IN  OrderBySendDate(SetToSeq(rows))

\* ------------------------------------------------------------------------
\* The coroutines, from one await to the next.  Each operator below fixes
\* users', pc', loc', db_queue', last_write', sent' and snap'; q is the work
\* queue and l the locals of task t at that point.
\* ------------------------------------------------------------------------
\* a storage call either succeeds or raises inside its try block
Outcomes == IF nfail < MaxFail THEN {TRUE, FALSE} ELSE {TRUE}

\* w.write(...): the last write, with what it was written to (dead: the task
\* of that connection had ended)
Write(t, l, to, kind) ==
    [seq |-> 1 - last_write.seq, to |-> to, kind |-> kind, by |-> t,
     sender |-> l.data.username, receiver |-> l.data.receiver,
     dead |-> pc[to] = "failed"]

\* back at reader.read
Return(t, us, q) ==
    /\ users' = us
    /\ pc' = [pc EXCEPT ![t] = "read"]
    /\ loc' = [loc EXCEPT ![t] = NoLocals]
    /\ db_queue' = q
    /\ sent' = [sent EXCEPT ![t] = {}]
    /\ snap' = [snap EXCEPT ![t] = <<>>]
    /\ last_write' = last_write

\* suspended at an await after writing to a writer
WriteAndDrain(t, us, q, l, at, to, kind, done, sn) ==
    /\ users' = us
    /\ pc' = [pc EXCEPT ![t] = at]
    /\ loc' = [loc EXCEPT ![t] = [l EXCEPT !.w = to]]
    /\ db_queue' = q
    /\ sent' = [sent EXCEPT ![t] = done]
    /\ snap' = [snap EXCEPT ![t] = sn]
    /\ last_write' = Write(t, l, to, kind)

\* suspended at run_in_executor
Submit(t, us, q, l, op) ==
    /\ users' = us
    /\ pc' = [pc EXCEPT ![t] = op]
    /\ loc' = [loc EXCEPT ![t] = [l EXCEPT !.w = 0, !.it = 0, !.it_len = 0]]
    /\ db_queue' = Append(q, t)
    /\ sent' = [sent EXCEPT ![t] = {}]
    /\ snap' = [snap EXCEPT ![t] = <<>>]
    /\ last_write' = last_write

\* an exception leaves process_data and client_connected: the task ends
Raise(t, q) ==
    /\ users' = users
    /\ pc' = [pc EXCEPT ![t] = "failed"]
    /\ loc' = [loc EXCEPT ![t] = NoLocals]
    /\ db_queue' = q
    /\ sent' = [sent EXCEPT ![t] = {}]
    /\ snap' = [snap EXCEPT ![t] = <<>>]
    /\ last_write' = last_write

\* (mutant) the error of a storage method reaches the awaiting coroutine
except_nothing(t, q, degraded) == Raise(t, q)

\* `except Exception as er: logger.error(...)` in a storage method: the error
\* is logged, the method returns its initial result (None, []) and the
\* coroutine goes on with it
except_Exception(t, q, degraded) == degraded

\* (mutant) send_to_one with the test of send_to_all
Match_everyone(loop, t, l, e) == e.w # t

\* the test in the body of the three fan-out loops
Match(loop, t, l, e) ==
    IF loop = "send_to_one" THEN e.name = l.data.receiver ELSE e.w # t

NextMatch(loop, t, l, us, i) ==
    LET S == {j \in i..Len(us) : Match(loop, t, l, us[j])}
    IN  IF S = {} THEN 0 ELSE Min(S)

Recipients(loop, t, l, us) ==
    {us[j].w : j \in {k \in 1..Len(us) : Match(loop, t, l, us[k])}}

\* One run of a fan-out loop (send_to_all, send_to_one, send_hello) from
\* position l.it of the dict us: the elements that fail the test are
\* skipped without an await; the first that passes is written to and its
\* drain is awaited; StopIteration ends the loop.  After send_to_all,
\* process_data goes on to append_count_message.
Iterate(t, loop, us, q, l, done, sn) ==
    LET j == NextMatch(loop, t, l, us, l.it) IN
    IF j = 0
    THEN IF loop = "send_to_all"
         THEN Submit(t, us, q, l, "append_count")
         ELSE Return(t, us, q)
    ELSE WriteAndDrain(t, us, q, [l EXCEPT !.it = j + 1], loop, us[j].w, loop,
                       done \cup {us[j].w}, sn)

\* for ... in self.users.values(): a new iterator, then its first run
StartLoop(t, loop, us, q, l) ==
    Iterate(t, loop, us, q, [l EXCEPT !.it = 1, !.it_len = Len(us)], {}, us)

\* (mutant) the session is registered before its backlog is written
SendAvailable_registered_first(t, q, l) ==
    IF l.it <= Len(l.messages)
    THEN WriteAndDrain(t, register(users, l.data.username, t), q,
                       [l EXCEPT !.it = @ + 1], "send_available",
                       t, "backlog", {}, <<>>)
    ELSE StartLoop(t, "send_hello", register(users, l.data.username, t), q, l)

\* send_available_messages from row l.it of the fetched list; after the last
\* row process_data registers the session and calls send_hello
SendAvailable(t, q, l) ==
    IF l.it <= Len(l.messages)
    THEN WriteAndDrain(t, users, q, [l EXCEPT !.it = @ + 1], "send_available",
                       t, "backlog", {}, <<>>)
    ELSE StartLoop(t, "send_hello", register(users, l.data.username, t), q, l)

\* lines 103-116 of process_data, the user resolved into l
Dispatch(t, q, l) ==
    CASE l.data.target = "hello" -> Submit(t, users, q, l, "get_available")
      [] l.data.target = "all" ->
            IF l.count_messages >= LIMIT_MESSAGES
            THEN WriteAndDrain(t, users, q, l, "send_limit_warning", t,
                               "send_limit_warning", {}, <<>>)
            ELSE StartLoop(t, "send_to_all", users, q, l)
      [] l.data.target = "one_to_one" -> StartLoop(t, "send_to_one", users, q, l)
      [] OTHER -> Return(t, users, q)

Broadcasts(l) ==
    l.data.target = "all" /\ l.count_messages < LIMIT_MESSAGES

Failures(ok) == IF ok THEN nfail ELSE nfail + 1

\* the count_messages stored for a username (0 when it has no row)
StoredCount(regs, u) ==
    LET row == get_user_row(regs, u)
    IN  IF row = <<>> THEN 0 ELSE row[1].count_messages

\* history: the request of a task is over when the task reads again or ends
Done(t) == late' = IF pc'[t] \in {"read", "failed"} THEN late \ {t} ELSE late

\* history: one more broadcast of the username of l
Counted(l) ==
    bcast' = IF Broadcasts(l) THEN [bcast EXCEPT ![l.data.username] = @ + 1]
             ELSE bcast

\* ------------------------------------------------------------------------
\* Init: listen() has created the three tasks; no client has sent anything
\* ------------------------------------------------------------------------
Start(failed) ==
    /\ users = <<>>
    /\ registrations = <<>>
    /\ messages = <<>>
    /\ now = 0
    /\ db_queue = <<>>
    /\ pc = [t \in Conns |-> "read"]
    /\ loc = [t \in Conns |-> NoLocals]
    /\ maint = [t \in {DELETE_TASK, RESET_TASK} |-> "sleep"]
    /\ stalled = {}
    /\ nreq = 0
    /\ nfail = failed
    /\ last_write = [seq |-> 0, to |-> 0, kind |-> "none", by |-> 0,
                     sender |-> "", receiver |-> "", dead |-> FALSE]
    /\ sent = [t \in Conns |-> {}]
    /\ snap = [t \in Conns |-> <<>>]
    /\ bcast = [u \in Usernames |-> 0]
    /\ reached = {}
    /\ late = {}
    /\ running = {}

Init == Start(0)

\* ------------------------------------------------------------------------
\* Connection tasks
\* ------------------------------------------------------------------------
\* client_connected reads a request; process_data decodes it and awaits its
\* first storage call: store_message unless the target is hello, else get_user.
\* store_message builds the call from data['message'], data['username'] and
\* data['receiver'] (lines 140-142): a request without one of these keys
\* raises KeyError there, before anything is submitted.
process_data(t, r, max) ==
    /\ pc[t] = "read"
    /\ nreq < max
    /\ nreq' = nreq + 1
    /\ IF r.target # "hello" /\ ~HasKeys(r, {"message", "username", "receiver"})
       THEN Raise(t, db_queue)
       ELSE Submit(t, users, db_queue, [NoLocals EXCEPT !.data = r],
                   IF r.target # "hello" THEN "store_message" ELSE "get_user")
    /\ late' = IF r.username \in reached THEN late \cup {t} ELSE late \ {t}
    /\ UNCHANGED <<registrations, messages, now, maint, stalled, nfail, bcast,
                   reached>>
    /\ running' = running

\* the reads that json.loads rejects: b'' (the peer closed) and bytes that
\* are not a JSON document
Undecodable == {"", "{"}

\* reader.read returns such data: process_data raises in json.loads (line 87)
\* before the test of line 54, the exception leaves client_connected and the
\* task ends in "failed".  Lines 57-58 (writer.close(), the state "closed")
\* come after the loop, which only `break` leaves: they are not executed.
\* (mutant) the end of a connection removes its sessions from the registry
read_eof_unregisters(t) ==
    /\ pc[t] = "read"
    /\ pc' = [pc EXCEPT ![t] = "failed"]
    /\ users' = SelectSeq(users, LAMBDA e : e.w # t)
    /\ UNCHANGED <<registrations, messages, now, db_queue, loc, maint,
                   stalled, nreq, nfail, last_write, sent, snap, bcast,
                   reached, late>>
    /\ running' = running

read_eof(t) ==
    /\ pc[t] = "read"
    /\ \E data \in Undecodable : pc' = [pc EXCEPT ![t] = "failed"]
    /\ UNCHANGED <<users, registrations, messages, now, db_queue, loc, maint,
                   stalled, nreq, nfail, last_write, sent, snap, bcast,
                   reached, late>>
    /\ running' = running

\* store_message, then get_user is submitted.  The clock has moved on when
\* the next insert reads it: no two rows carry the same send_date.
db_store_message(t) ==
    /\ db_queue # <<>> /\ Head(db_queue) = t
    /\ t \in Conns /\ pc[t] = "store_message"
    /\ \E ok \in Outcomes :
          /\ messages' =
                IF ok
                THEN create_record_in_db(messages, loc[t].data.message,
                         loc[t].data.username, loc[t].data.receiver, now)
                ELSE messages
          /\ now' = IF ok THEN now + 1 ELSE now
          /\ nfail' = Failures(ok)
    /\ Submit(t, users, Tail(db_queue), loc[t], "get_user")
    /\ UNCHANGED <<registrations, maint, stalled, nreq, bcast, reached, late>>
    /\ running' = running \ {t}

\* get_user, then lines 96-116: reg_user is submitted for an unknown user,
\* else the request is dispatched with the stored reg_date and count
db_get_user(t) ==
    /\ db_queue # <<>> /\ Head(db_queue) = t
    /\ t \in Conns /\ pc[t] = "get_user"
    /\ \E ok \in Outcomes :
          LET exist_user == IF ok
                            THEN get_user_row(registrations, loc[t].data.username)
                            ELSE <<>>
              l == [loc[t] EXCEPT
                       !.exist_user = TRUE,
                       !.reg_date = exist_user[1].reg_date,
                       !.count_messages = exist_user[1].count_messages]
              next == IF exist_user = <<>>
                      THEN Submit(t, users, Tail(db_queue), loc[t], "reg_user")
                      ELSE Dispatch(t, Tail(db_queue), l)
          IN  /\ nfail' = Failures(ok)
              /\ IF exist_user = <<>> THEN bcast' = bcast ELSE Counted(l)
              /\ IF ok THEN next
                 ELSE except_Exception(t, Tail(db_queue), next)
    /\ Done(t)
    /\ UNCHANGED <<registrations, messages, now, maint, stalled, nreq, reached>>
    /\ running' = running \ {t}

\* reg_user, then reg_date = now and the request is dispatched with count 0
db_reg_user(t) ==
    /\ db_queue # <<>> /\ Head(db_queue) = t
    /\ t \in Conns /\ pc[t] = "reg_user"
    /\ \E ok \in Outcomes :
          /\ registrations' =
                IF ok
                THEN create_user_db_record(registrations,
                                           loc[t].data.username, now)
                ELSE registrations
          /\ nfail' = Failures(ok)
    /\ LET l == [loc[t] EXCEPT !.reg_date = now]
       IN  /\ Dispatch(t, Tail(db_queue), l)
           /\ Counted(l)
    /\ Done(t)
    /\ UNCHANGED <<messages, now, maint, stalled, nreq, reached>>
    /\ running' = running \ {t}

\* send_available_messages: the fetch, then the first row is written
db_get_available(t) ==
    /\ db_queue # <<>> /\ Head(db_queue) = t
    /\ t \in Conns /\ pc[t] = "get_available"
    /\ \E ok \in Outcomes :
          LET rows == IF ok
                      THEN get_available_messages(messages,
                               loc[t].data.username, loc[t].reg_date)
                      ELSE <<>>
              next == SendAvailable(t, Tail(db_queue),
                          [loc[t] EXCEPT !.messages = rows, !.it = 1])
          IN  /\ nfail' = Failures(ok)
              /\ IF ok THEN next
                 ELSE except_Exception(t, Tail(db_queue), next)
    /\ Done(t)
    /\ UNCHANGED <<registrations, messages, now, maint, stalled, nreq, bcast,
                   reached>>
    /\ running' = running \ {t}

\* append_count_message(user, count_messages): the count read at get_user, + 1
db_append_count(t) ==
    /\ db_queue # <<>> /\ Head(db_queue) = t
    /\ t \in Conns /\ pc[t] = "append_count"
    /\ \E ok \in Outcomes :
          /\ registrations' =
                IF ok
                THEN append_count_row(registrations, loc[t].data.username,
                                      loc[t].count_messages + 1)
                ELSE registrations
          /\ nfail' = Failures(ok)
    /\ reached' = IF StoredCount(registrations', loc[t].data.username)
                        >= LIMIT_MESSAGES
                  THEN reached \cup {loc[t].data.username} ELSE reached
    /\ Return(t, users, Tail(db_queue))
    /\ Done(t)
    /\ UNCHANGED <<messages, now, maint, stalled, nreq, bcast>>
    /\ running' = running \ {t}

\* a drain inside send_to_all, send_to_one or send_hello returns: the iterator
\* is advanced, and raises RuntimeError when the dict changed size meanwhile;
\* the exception leaves process_data and client_connected and the task ends
fan_out(t, loop) ==
    /\ pc[t] = loop
    /\ loc[t].w \notin stalled
    /\ IF Len(users) # loc[t].it_len
       THEN Raise(t, db_queue)
       ELSE Iterate(t, loop, users, db_queue, loc[t], sent[t], snap[t])
    /\ Done(t)
    /\ UNCHANGED <<registrations, messages, now, maint, stalled, nreq, nfail,
                   bcast, reached>>
    /\ running' = running

send_to_all(t) ==
    /\ pc[t] = "send_to_all"
    /\ fan_out(t, "send_to_all")

send_to_one(t) ==
    /\ pc[t] = "send_to_one"
    /\ fan_out(t, "send_to_one")

send_hello(t) ==
    /\ pc[t] = "send_hello"
    /\ fan_out(t, "send_hello")

\* a drain inside send_available_messages returns
send_available_messages(t) ==
    /\ pc[t] = "send_available"
    /\ loc[t].w \notin stalled
    /\ SendAvailable(t, db_queue, loc[t])
    /\ Done(t)
    /\ UNCHANGED <<registrations, messages, now, maint, stalled, nreq, nfail,
                   bcast, reached>>
    /\ running' = running

\* the drain of send_limit_warning returns
send_limit_warning(t) ==
    /\ pc[t] = "send_limit_warning"
    /\ loc[t].w \notin stalled
    /\ Return(t, users, db_queue)
    /\ Done(t)
    /\ UNCHANGED <<registrations, messages, now, maint, stalled, nreq, nfail,
                   bcast, reached>>
    /\ running' = running

\* ------------------------------------------------------------------------
\* Maintenance tasks
\* ------------------------------------------------------------------------
\* the sleep of a maintenance loop ends and its storage call is submitted
wake(m) ==
    /\ maint[m] = "sleep"
    /\ maint' = [maint EXCEPT ![m] = "queued"]
    /\ db_queue' = Append(db_queue, m)
    /\ UNCHANGED <<users, registrations, messages, now, pc, loc, stalled, nreq,
                   nfail, last_write, sent, snap, bcast, reached, late>>
    /\ running' = running

\* delete_old_messages: after asyncio.sleep(60)
delete_old_messages ==
    /\ maint[DELETE_TASK] = "sleep"
    /\ wake(DELETE_TASK)

\* reset_limit_messages: after asyncio.sleep(60 * UPDATE_PERIOD)
reset_limit_messages ==
    /\ maint[RESET_TASK] = "sleep"
    /\ wake(RESET_TASK)

db_delete_old_messages ==
    /\ db_queue # <<>> /\ Head(db_queue) = DELETE_TASK
    /\ \E ok \in Outcomes :
          /\ messages' = IF ok THEN delete_old(messages, now) ELSE messages
          /\ nfail' = Failures(ok)
    /\ maint' = [maint EXCEPT ![DELETE_TASK] = "sleep"]
    /\ db_queue' = Tail(db_queue)
    /\ UNCHANGED <<users, registrations, now, pc, loc, stalled, nreq,
                   last_write, sent, snap, bcast, reached, late>>
    /\ running' = running \ {DELETE_TASK}

db_reset_limits ==
    /\ db_queue # <<>> /\ Head(db_queue) = RESET_TASK
    /\ \E ok \in Outcomes :
          /\ registrations' = IF ok THEN reset_limits(registrations)
                              ELSE registrations
          /\ nfail' = Failures(ok)
    /\ maint' = [maint EXCEPT ![RESET_TASK] = "sleep"]
    /\ db_queue' = Tail(db_queue)
    /\ bcast' = [u \in Usernames |-> 0]
    /\ reached' = {}
    /\ late' = {}
    /\ UNCHANGED <<users, messages, now, pc, loc, stalled, nreq, last_write,
                   sent, snap>>
    /\ running' = running \ {RESET_TASK}

\* time passes
tick ==
    /\ now < MaxTime
    /\ now' = now + 1
    /\ UNCHANGED <<users, registrations, messages, db_queue, pc, loc, maint,
                   stalled, nreq, nfail, last_write, sent, snap, bcast,
                   reached, late>>
    /\ running' = running

\* ------------------------------------------------------------------------
\* Specifications
\* ------------------------------------------------------------------------
\* the storage calls of a connection task, each with the continuation of
\* process_data up to its next await
ServeStorage(t) ==
    \/ db_store_message(t)
    \/ db_get_user(t)
    \/ db_reg_user(t)
    \/ db_get_available(t)
    \/ db_append_count(t)

\* the steps of a connection task that serves a request of one username to
\* the general chat: with every session under that username, send_hello finds
\* no other session to greet and returns without an await
ServeAlone(t) ==
    \/ ServeStorage(t)
    \/ send_to_all(t)
    \/ send_available_messages(t)
    \/ send_limit_warning(t)

\* the steps of a connection task that serves a request to the general chat
\* below the limit
ServeBelow(t) ==
    \/ ServeStorage(t)
    \/ send_to_all(t)
    \/ send_hello(t)
    \/ send_available_messages(t)

\* the steps of a connection task after its request was read
Serve(t) == ServeAlone(t) \/ send_hello(t) \/ send_to_one(t)

\* Spec: the connections, every kind of request, storage failures and the
\* rate-reset loop
Next ==
    \/ \E t \in Conns : \E r \in Requests : process_data(t, r, MaxReq)
    \/ \E t \in Conns : read_eof(t)
    \/ \E t \in Conns : Serve(t)
    \/ reset_limit_messages
    \/ db_reset_limits

Spec == Init /\ [][Next]_vars

\* SpecRace: longer runs of one username in the general chat (hello and all
\* from several connections) with a storage that never fails and peers
\* that never close
InitRace == Start(MaxFail)

NextRace ==
    \/ \E t \in Conns : \E r \in RaceRequests : process_data(t, r, MaxRaceReq)
    \/ \E t \in Conns : ServeAlone(t)
    \/ reset_limit_messages
    \/ db_reset_limits

SpecRace == InitRace /\ [][NextRace]_vars

\* SpecLive: the general chat with one peer that stops reading for good, a
\* storage that never fails, and the scheduling asyncio guarantees: the
\* event loop resumes every task whose await has completed and the worker
\* of db_executor serves the head of its queue
stall(c) ==
    /\ stalled = {}
    /\ stalled' = {c}
    /\ UNCHANGED <<users, registrations, messages, now, db_queue, pc, loc,
                   maint, nreq, nfail, last_write, sent, snap, bcast, reached,
                   late>>
    /\ running' = running

NextLive ==
    \/ \E t \in Conns : \E r \in ChatRequests : process_data(t, r, MaxLiveReq)
    \/ \E t \in Conns : ServeBelow(t)
    \/ \E c \in Conns : stall(c)

SpecLive ==
    /\ InitRace
    /\ [][NextLive]_vars
    /\ \A t \in Conns : WF_vars(ServeBelow(t))

\* SpecWire: every request of the wire format, optional keys left out
\* included, with a storage that never fails and no maintenance
NextWire ==
    \/ \E t \in Conns : \E r \in WireRequests : process_data(t, r, MaxWireReq)
    \/ \E t \in Conns : Serve(t)

SpecWire == InitRace /\ [][NextWire]_vars

\* SpecPrivate: hellos and one_to_one requests with every value of receiver,
\* with a storage that never fails and no maintenance
NextPrivate ==
    \/ \E t \in Conns : \E r \in PrivateRequests :
          process_data(t, r, MaxPrivateReq)
    \/ \E t \in Conns : db_store_message(t)
    \/ \E t \in Conns : db_get_user(t)
    \/ \E t \in Conns : db_reg_user(t)
    \/ \E t \in Conns : db_get_available(t)
    \/ \E t \in Conns : send_available_messages(t)
    \/ \E t \in Conns : send_hello(t)
    \/ \E t \in Conns : send_to_one(t)

SpecPrivate == InitRace /\ [][NextPrivate]_vars

\* SpecPool: the worker threads of db_executor made explicit.  A call waits
\* in the work queue until a free worker thread takes it; it stays at its place
\* in the queue while the thread executes it, and the storage step (with the
\* continuation of the awaiting coroutine) is the end of the call.  Both
\* maintenance loops run, the clock ticks, storage calls may fail.
PoolRequests == {r \in Requests : r.target \in {"hello", "all", "status"}}

\* a free worker thread takes the oldest call that no thread has taken
db_take ==
    /\ Cardinality(running) < max_workers
    /\ \E i \in 1..Len(db_queue) :
          /\ db_queue[i] \notin running
          /\ \A j \in 1..(i - 1) : db_queue[j] \in running
          /\ running' = running \cup {db_queue[i]}
    /\ UNCHANGED <<users, registrations, messages, now, db_queue, pc, loc,
                   maint, stalled, nreq, nfail, last_write, sent, snap, bcast,
                   reached, late>>

\* the call of a connection task that a worker thread has taken ends
pool_call(t) ==
    \/ t \in running /\ db_store_message(t)
    \/ t \in running /\ db_get_user(t)
    \/ t \in running /\ db_reg_user(t)
    \/ t \in running /\ db_get_available(t)
    \/ t \in running /\ db_append_count(t)

\* the call of a maintenance loop that a worker thread has taken ends
pool_maintenance ==
    \/ DELETE_TASK \in running /\ db_delete_old_messages
    \/ RESET_TASK \in running /\ db_reset_limits

NextPool ==
    \/ \E t \in Conns : \E r \in PoolRequests : process_data(t, r, MaxPoolReq)
    \/ db_take
    \/ \E t \in Conns : pool_call(t)
    \/ pool_maintenance
    \/ \E t \in Conns : send_to_all(t)
    \/ \E t \in Conns : send_hello(t)
    \/ \E t \in Conns : send_available_messages(t)
    \/ delete_old_messages
    \/ reset_limit_messages
    \/ tick

SpecPool == Init /\ [][NextPool]_vars

\* ------------------------------------------------------------------------
\* Properties
\* ------------------------------------------------------------------------
Loops == {"send_to_all", "send_to_one", "send_hello"}

\* this step is a writer.write of that kind by task t
Wrote(t, kind) ==
    /\ last_write' # last_write
    /\ last_write'.kind = kind
    /\ last_write'.by = t

\* this step is a run of the rate-reset storage call
ResetRun == maint[RESET_TASK] = "queued" /\ maint'[RESET_TASK] = "sleep"

\* this step dispatches the request of task t (lines 103-116)
Dispatched(t) ==
    /\ pc[t] \in {"get_user", "reg_user"}
    /\ pc'[t] \notin {"get_user", "reg_user"}

\* the sessions an `all` request of username u is due to: every registered
\* session but the one registered under u
Others(us, u) == Registered(us) \ SessionsOf(us, u)

\* C1: an `all` request of user U processed below the limit is written to
\* every session registered at that moment other than U's, and is never
\* written to the session registered under U.
C1_Step(t) ==
    /\ Wrote(t, "send_to_all") =>
          last_write'.to \notin SessionsOf(users, last_write'.sender)
    /\ (pc[t] = "send_to_all" /\ pc'[t] = "append_count") =>
          sent[t] = Others(snap[t], loc[t].data.username)
    /\ (Dispatched(t) /\ pc'[t] = "append_count") =>
          Others(users, loc[t].data.username) = {}

C1_BroadcastToOthersNeverToSender == [][\A t \in Conns : C1_Step(t)]_vars

\* C2: a request of U to the general chat that is read after U's stored
\* count reached the limit, with no rate-reset run since, is not broadcast
\* and does not increment the count: its task never enters send_to_all or
\* append_count_message.
C2_LateRequestOnlyWarned ==
    \A t \in late : pc[t] \notin {"send_to_all", "append_count"}

\* C3: between two consecutive rate-reset runs no username has more than
\* LIMIT_MESSAGES of its `all` requests broadcast.
C3_BroadcastsWithinLimit ==
    \A u \in Usernames : bcast[u] <= LIMIT_MESSAGES

\* C7: a stored message-count is never negative and, in a step that is not
\* a rate-reset run, never decreases.
C7_CountMonotone ==
    [][\A u \in Usernames :
          /\ StoredCount(registrations', u) >= 0
          /\ ~ResetRun =>
                StoredCount(registrations', u) >= StoredCount(registrations, u)
      ]_vars

\* C5: a fan-out that is suspended between two recipients is not affected
\* by a registration: it does not fail, and when it ends it has written to
\* exactly the recipients of the dict it started with.
C5_Step(t) ==
    pc[t] \in {"send_to_all", "send_hello"} =>
        /\ pc'[t] # "failed"
        /\ pc'[t] # pc[t] => sent[t] = Recipients(pc[t], t, loc[t], snap[t])

C5_FanOutUsesSnapshot == [][\A t \in Conns : C5_Step(t)]_vars

\* C10: every username of the session registry has a user record.
C10_SessionHasUserRecord ==
    \A i \in 1..Len(users) : ~username_unique(registrations, users[i].name)

\* C4: a one_to_one request naming receiver R is written only to the
\* session registered under R; when no session is registered under R the
\* dispatch writes nothing and the request is over, the task reading again.
C4_Step(t) ==
    /\ Wrote(t, "send_to_one") =>
          last_write'.to \in SessionsOf(users, last_write'.receiver)
    /\ (/\ Dispatched(t)
        /\ loc[t].data.target = "one_to_one"
        /\ SessionsOf(users, loc[t].data.receiver) = {}) =>
          (last_write' = last_write /\ pc'[t] = "read")
    /\ (pc[t] = "send_to_one" /\ last_write' # last_write
                                /\ last_write'.by = t) =>
          Wrote(t, "send_to_one")

C4_OneToOneOnlyToReceiver == [][\A t \in Conns : C4_Step(t)]_vars

\* a one_to_one message was written to the session of its receiver while
\* another session was registered
C4_Witness ==
    \E t \in Conns :
        /\ pc[t] = "send_to_one"
        /\ last_write.kind = "send_to_one" /\ last_write.by = t
        /\ sent[t] = SessionsOf(users, loc[t].data.receiver)
        /\ Registered(users) \ sent[t] # {}

\* C8: there is never more than one user record per username; when the
\* create-user call of a request has run without a storage failure the
\* username has exactly one record, and a record created by it has count 0.
RowsOf(regs, u) == {i \in 1..Len(regs) : regs[i].username = u}

C8_Step(t) ==
    (pc[t] = "reg_user" /\ pc'[t] # "reg_user" /\ nfail' = nfail) =>
        /\ Cardinality(RowsOf(registrations', loc[t].data.username)) = 1
        /\ registrations' # registrations =>
              registrations'[Len(registrations')] =
                  [username |-> loc[t].data.username, reg_date |-> now,
                   count_messages |-> 0]

C9_Step(t) ==
    (pc[t] = "get_available" /\ pc'[t] # "get_available" /\ nfail' = nfail) =>
        LET a == Addressed(messages, loc[t].data.username)
            all_ == {a[i] : i \in 1..Len(a)}
            T == loc[t].reg_date
            got == {loc'[t].messages[i] : i \in 1..Len(loc'[t].messages)}
            before == {m \in all_ : m.send_date < T}
            trailing == {m \in before :
                Cardinality({n \in before : n.send_date > m.send_date})
                    < LIMIT_SHOW_MESSAGES}
        IN  /\ \A m \in all_ : m.send_date >= T => Row(m) \in got
            /\ Cardinality(before) > LIMIT_SHOW_MESSAGES =>
                  \A m \in trailing : Row(m) \in got

C9_BacklogHasTrailingWindow == [][\A t \in Conns : C9_Step(t)]_vars

\* C6: a request of a connection that is not the stalled one is eventually
\* processed to its end (its task reads again, or has ended).
C6_OthersNotBlocked ==
    \A t \in Conns :
        (pc[t] \notin {"read", "failed"} /\ t \notin stalled)
            ~> (pc[t] \in {"read", "failed"} \/ t \in stalled)

\* C11: a read that is empty or does not decode ends the session of that
\* connection with its handle closed (writer.close()), and leaves every other
\* connection task and the storage queue as they are.
C11_Step(t) ==
    (pc[t] = "read" /\ pc'[t] # "read" /\ nreq' = nreq) =>
        /\ pc'[t] = "closed"
        /\ \A o \in Conns \ {t} : pc'[o] = pc[o]
        /\ db_queue' = db_queue /\ maint' = maint

C11_UndecodableReadClosesHandle == [][\A t \in Conns : C11_Step(t)]_vars

\* C12: at most one storage operation is executing at any time, whichever
\* task submitted it: a request, the expiry loop or the rate-reset loop.
C12_OneStorageCallAtATime == Cardinality(running) <= 1

\* the expiry call is executing while the rate-reset call and the call of a
\* request are waiting behind it
C12_Witness ==
    /\ running = {DELETE_TASK}
    /\ maint[RESET_TASK] = "queued"
    /\ \E t \in Conns : \E i \in 1..Len(db_queue) : db_queue[i] = t

\* C13: a storage call that fails stores nothing and ends no task: the
\* connection task goes on with the default result (an unknown user, an
\* empty backlog) to the next step of its request, a maintenance loop goes
\* back to its sleep, and no other task ends.
C13_Step ==
    nfail' > nfail =>
        LET h == Head(db_queue) IN
        /\ registrations' = registrations /\ messages' = messages
        /\ \A o \in Conns : pc'[o] = "failed" => pc[o] = "failed"
        /\ h \notin Conns => maint'[h] = "sleep"
        /\ h \in Conns =>
              /\ pc[h] = "store_message" => pc'[h] = "get_user"
              /\ pc[h] = "get_user" => pc'[h] = "reg_user"
              /\ pc[h] = "reg_user" =>
                    pc'[h] \in {"get_available", "send_to_all", "append_count",
                                "read"}
              /\ pc[h] = "get_available" =>
                    /\ pc'[h] \in {"send_hello", "read"}
                    /\ last_write'.kind # "backlog"
                    /\ SessionsOf(users', loc[h].data.username) = {h}
              /\ pc[h] = "append_count" => pc'[h] = "read"

C13_StorageFailureEndsNoTask == [][C13_Step]_vars

\* the only request ever read was an `all` whose store_message failed (the
\* clock never moved): it was served to its end, the count update included
C13_Witness ==
    /\ nreq = 1 /\ nfail = 1 /\ now = 0
    /\ \A t \in Conns : pc[t] = "read"
    /\ \E u \in Usernames : StoredCount(registrations, u) = 1

\* this step is a run of the expiry storage call
ExpiryRun == maint[DELETE_TASK] = "queued" /\ maint'[DELETE_TASK] = "sleep"

C15_ResetZeroesEveryCount ==
    [][(ResetRun /\ nfail' = nfail) =>
          /\ Len(registrations') = Len(registrations)
          /\ \A i \in 1..Len(registrations) :
                registrations'[i] =
                    [registrations[i] EXCEPT !.count_messages = 0]]_vars

\* a request still holds the count 1 it looked up, and the stored count of
\* its user is 0: the reset ran on a count that was not 0
C15_Witness ==
    /\ nfail = 0
    /\ maint[RESET_TASK] = "sleep"
    /\ \E t \in Conns :
          /\ pc[t] = "append_count"
          /\ loc[t].count_messages = 1
          /\ StoredCount(registrations, loc[t].data.username) = 0

\* the backlog phase of a hello: from the fetch to the drain of the last row
Backlog == {"get_available", "send_available"}

\* the order of a hello of U: the backlog is written to the requester only
\* and leaves the registry as it is; the step that ends the backlog registers
\* the requester under U and is the only kind of step that changes the
\* registry; the announcements come after it, name U, and go to sessions
\* registered at that moment other than the requester's connection.
C16_Step(t) ==
    /\ Wrote(t, "backlog") =>
          /\ last_write'.to = t
          /\ pc[t] \in Backlog
          /\ users' = users
    /\ (pc[t] \in Backlog /\ pc'[t] \notin Backlog) =>
          /\ users' = register(users, loc[t].data.username, t)
          /\ ~Wrote(t, "backlog")
    /\ Wrote(t, "send_hello") =>
          /\ pc[t] \in Backlog \cup {"send_hello"}
          /\ last_write'.to # t
          /\ last_write'.to \in Registered(users')
          /\ last_write'.sender = loc'[t].data.username
          /\ HasKey(users', loc'[t].data.username)
    /\ users' # users => \E o \in Conns : pc[o] \in Backlog /\ pc'[o] \notin Backlog

C17_StoreBeforeLookupAndDelivery ==
    [][/\ \A t \in Conns :
            /\ (pc[t] = "read" /\ pc'[t] # "read") =>
                  \/ pc'[t] = "store_message" /\ loc'[t].data.target # "hello"
                  \/ pc'[t] = "get_user" /\ loc'[t].data.target = "hello"
            /\ (pc[t] = "store_message" /\ pc'[t] # "store_message") =>
                  /\ pc'[t] = "get_user"
                  /\ Len(messages') = Len(messages) + 1
                  /\ SubSeq(messages', 1, Len(messages)) = messages
                  /\ registrations' = registrations
            /\ (pc[t] # "get_user" /\ pc'[t] = "get_user") =>
                  pc[t] \in {"read", "store_message"}
            /\ (\E k \in Loops \cup {"send_limit_warning"} : Wrote(t, k)) =>
                  pc[t] \notin {"read", "store_message"}
       /\ messages' # messages =>
            \E t \in Conns : pc[t] = "store_message" /\ pc'[t] = "get_user"]_vars

\* C18: the end of a connection's task (the peer closed, or an error) leaves
\* the registry as it is; no username ever leaves the registry, and the
\* session of a username changes only when a hello of that username is
\* registered; a one_to_one send and a broadcast write to the sessions the
\* registry holds, whether or not the task of that connection has ended.
C18_Step(t) ==
    /\ (pc[t] # "failed" /\ pc'[t] = "failed") => users' = users
    /\ (/\ Dispatched(t)
        /\ loc[t].data.target = "one_to_one"
        /\ SessionsOf(users, loc[t].data.receiver) # {}) =>
          /\ Wrote(t, "send_to_one")
          /\ last_write'.to \in SessionsOf(users, loc[t].data.receiver)
    /\ (/\ Dispatched(t)
        /\ loc[t].data.target = "all"
        /\ pc'[t] # "send_limit_warning"
        /\ Registered(users) \ {t} # {}) =>
          /\ Wrote(t, "send_to_all")
          /\ last_write'.to \in Registered(users) \ {t}
    /\ (pc[t] = "send_to_all" /\ pc'[t] = "append_count" /\ users = snap[t]) =>
          sent[t] = Registered(users) \ {t}

C18_CloseLeavesRegistry ==
    [][/\ \A t \in Conns : C18_Step(t)
       /\ \A u \in Usernames :
            /\ HasKey(users, u) => HasKey(users', u)
            /\ SessionsOf(users', u) # SessionsOf(users, u) =>
                  \E t \in Conns :
                     /\ pc[t] \in Backlog /\ pc'[t] \notin Backlog
                     /\ loc[t].data.username = u
                     /\ SessionsOf(users', u) = {t}]_vars

\* a connection registered a username and ended; a message was then written
\* to its dead handle, which is still in the registry
C18_Witness ==
    \E c \in Conns :
       /\ pc[c] = "failed"
       /\ c \in Registered(users)
       /\ last_write.to = c
       /\ last_write.dead
       /\ last_write.kind \in {"send_to_all", "send_to_one"}

\* C19: the stored message-count of a username is never more than the
\* number of its `all` requests broadcast since the last rate-reset run: a
\* reset that runs between the lookup of a request and its count update is
\* not undone by that update.
C19_CountWithinBroadcastsSinceReset ==
    \A u \in Usernames : StoredCount(registrations, u) <= bcast[u]

\* C20: the text of a one_to_one request is written live only to the session
\* registered under the receiver it names, and a backlog row that carries it
\* is written only to a user who is its sender or the receiver it names,
\* for every value of receiver, '' and 'all' included.
C20_Step(t) ==
    /\ Wrote(t, "send_to_one") =>
          last_write'.to \in SessionsOf(users, last_write'.receiver)
    /\ Wrote(t, "backlog") =>
          LET row == loc'[t].messages[loc'[t].it - 1]
          IN  row.message \in Notes =>
                 loc'[t].data.username \in {row.sender, NamedIn(row.message)}

C20_PrivateTextOnlyToReceiver == [][\A t \in Conns : C20_Step(t)]_vars

====
